---------------------------- MODULE Spec2Model ----------------------------
(***************************************************************************)
(* A model of src/src/sor.rs: the Odos Smart Order Routing V2 API client.  *)
(*                                                                         *)
(* Every call of get_swap_quote, get_assemble_response, assemble_tx_data   *)
(* or build_base_transaction is a small sequential process that suspends   *)
(* at its awaits.  The mock server's answer is an input: a status and a    *)
(* body text.  Texts are sequences of tokens; JSON is parsed from the      *)
(* tokens, hex is decoded from the characters, messages are formatted by   *)
(* concatenation.                                                          *)
(***************************************************************************)
EXTENDS Integers, Sequences, FiniteSets, TLC

(***************************************************************************)
(* Bounds of the model.                                                    *)
(***************************************************************************)
MaxDigits == 2        \* most characters after the prefix of a mocked `data`
MaxValueLen == 2      \* longest `value` string of a mocked transaction
MaxAttempts == 2      \* attempts the transport helper may make in one call
NumCallers == 2       \* concurrent call sites of the shared client

(***************************************************************************)
(* Texts.  A string is a tuple of symbols; a text is a tuple of tokens.    *)
(***************************************************************************)
Punct(p) == [t |-> "punct", v |-> <<p>>]
StrTok(s) == [t |-> "string", v |-> s]
Word(s) == [t |-> "word", v |-> s]

LBrace == Punct("{")
RBrace == Punct("}")
Colon == Punct(":")
Comma == Punct(",")

RECURSIVE SeqsUpTo(_, _)
\* every tuple over `alphabet` of length at most n
SeqsUpTo(alphabet, n) ==
    IF n = 0 THEN {<<>>}
    ELSE LET shorter == SeqsUpTo(alphabet, n - 1)
         IN  shorter \cup {Append(s, a) : s \in shorter, a \in alphabet}

Contains(text, part) ==
    \E i \in 0..(Len(text) - Len(part)) :
        SubSeq(text, i + 1, i + Len(part)) = part

DecDigits == <<"0", "1", "2", "3", "4", "5", "6", "7", "8", "9">>

RECURSIVE Digits(_)
\* the decimal digits of a natural number, most significant first
Digits(n) ==
    IF n < 10 THEN <<DecDigits[n + 1]>>
    ELSE Append(Digits(n \div 10), DecDigits[(n % 10) + 1])

(***************************************************************************)
(* hex::decode and Address::to_string.                                     *)
(***************************************************************************)
LowerHex == <<"0", "1", "2", "3", "4", "5", "6", "7", "8", "9",
              "a", "b", "c", "d", "e", "f">>
UpperHex == <<"0", "1", "2", "3", "4", "5", "6", "7", "8", "9",
              "A", "B", "C", "D", "E", "F">>

IsHexChar(ch) == \E i \in 1..16 : LowerHex[i] = ch \/ UpperHex[i] = ch
HexVal(ch) == (CHOOSE i \in 1..16 : LowerHex[i] = ch \/ UpperHex[i] = ch) - 1

StripPrefix(s) ==
    IF Len(s) >= 2 /\ s[1] = "0" /\ s[2] = "x" THEN SubSeq(s, 3, Len(s)) ELSE s

RECURSIVE HexPairs(_)
HexPairs(s) ==
    IF Len(s) < 2 THEN <<>>
    ELSE <<16 * HexVal(s[1]) + HexVal(s[2])>> \o HexPairs(SubSeq(s, 3, Len(s)))

\* hex::decode(&data): an optional 0x prefix, then pairs of hex digits
HexDecode(s) ==
    LET digits == StripPrefix(s)
    IN  IF Len(s) % 2 # 0
        THEN [ok |-> FALSE, bytes |-> <<>>, error |-> "OddLength"]
        ELSE IF \E i \in 1..Len(digits) : ~IsHexChar(digits[i])
        THEN [ok |-> FALSE, bytes |-> <<>>, error |-> "InvalidHexCharacter"]
        ELSE [ok |-> TRUE, bytes |-> HexPairs(digits), error |-> ""]

RECURSIVE HexEncode(_)
HexEncode(bytes) ==
    IF bytes = <<>> THEN <<>>
    ELSE <<LowerHex[(bytes[1] \div 16) + 1], LowerHex[(bytes[1] % 16) + 1]>>
             \o HexEncode(Tail(bytes))

\* Address::to_string(): 0x and the hex digits of the address's bytes
AddressToString(a) == <<"0", "x">> \o HexEncode(a)

(***************************************************************************)
(* JSON: values, the mock server's serialisation, serde_json's parse.      *)
(***************************************************************************)
JNull == [k |-> "null", s |-> <<>>, o |-> <<>>]
JString(s) == [k |-> "string", s |-> s, o |-> <<>>]
JObject(members) == [k |-> "object", s |-> <<>>, o |-> members]
Member(key, val) == [key |-> key, val |-> val]

RECURSIVE Serialize(_)
RECURSIVE SerializeMembers(_)
SerializeMembers(members) ==
    IF members = <<>> THEN <<>>
    ELSE <<StrTok(members[1].key), Colon>> \o Serialize(members[1].val)
           \o (IF Len(members) > 1 THEN <<Comma>> ELSE <<>>)
           \o SerializeMembers(Tail(members))

Serialize(j) ==
    IF j.k = "string" THEN <<StrTok(j.s)>>
    ELSE <<LBrace>> \o SerializeMembers(j.o) \o <<RBrace>>

ParseFail == [ok |-> FALSE, val |-> JNull, next |-> 0]

RECURSIVE ParseValue(_, _)
RECURSIVE ParseMembers(_, _, _)
\* the members of an object from token i on, up to the closing brace
ParseMembers(toks, i, acc) ==
    IF i + 2 > Len(toks) THEN ParseFail
    ELSE IF toks[i].t # "string" \/ toks[i + 1] # Colon THEN ParseFail
    ELSE LET r == ParseValue(toks, i + 2)
             all == Append(acc, Member(toks[i].v, r.val))
         IN  IF ~r.ok \/ r.next > Len(toks) THEN ParseFail
             ELSE IF toks[r.next] = Comma THEN ParseMembers(toks, r.next + 1, all)
             ELSE IF toks[r.next] = RBrace
             THEN [ok |-> TRUE, val |-> JObject(all), next |-> r.next + 1]
             ELSE ParseFail

\* one JSON value starting at token i
ParseValue(toks, i) ==
    IF i > Len(toks) THEN ParseFail
    ELSE IF toks[i].t = "string"
    THEN [ok |-> TRUE, val |-> JString(toks[i].v), next |-> i + 1]
    ELSE IF toks[i] # LBrace THEN ParseFail
    ELSE IF i + 1 <= Len(toks) /\ toks[i + 1] = RBrace
    THEN [ok |-> TRUE, val |-> JObject(<<>>), next |-> i + 2]
    ELSE ParseMembers(toks, i + 1, <<>>)

\* a whole text as one JSON value: trailing tokens are an error
ParseJson(toks) ==
    LET r == ParseValue(toks, 1)
    IN  IF r.ok /\ r.next = Len(toks) + 1
        THEN [ok |-> TRUE, val |-> r.val]
        ELSE [ok |-> FALSE, val |-> JNull]

\* a name (a field, a path identifier, a phrase) as a one-symbol string
Name(n) == <<n>>

HasField(j, key) == j.k = "object" /\ \E i \in 1..Len(j.o) : j.o[i].key = key
Field(j, key) == j.o[CHOOSE i \in 1..Len(j.o) : j.o[i].key = key].val
HasStringField(j, key) == HasField(j, key) /\ Field(j, key).k = "string"

(***************************************************************************)
(* The crate's types as far as sor.rs uses them.                           *)
(***************************************************************************)
Addresses == {<<0>>, <<255>>}
PathIds == {Name("path-1"), Name("path-2")}

None == [some |-> FALSE, v |-> <<>>]
Some(x) == [some |-> TRUE, v |-> x]

\* SingleQuoteResponse out of a JSON value: the path identifier is required,
\* other members of the object are ignored
QuoteFromJson(j) ==
    IF HasStringField(j, Name("pathId"))
    THEN [ok |-> TRUE, val |-> [path_id |-> Field(j, Name("pathId")).s]]
    ELSE [ok |-> FALSE, val |-> [path_id |-> <<>>]]

\* TransactionData out of a JSON value: data and value are required strings
TransactionDataFromJson(j) ==
    IF HasStringField(j, Name("data")) /\ HasStringField(j, Name("value"))
    THEN [ok |-> TRUE,
          val |-> [data |-> Field(j, Name("data")).s,
                   value |-> Field(j, Name("value")).s]]
    ELSE [ok |-> FALSE, val |-> [data |-> <<>>, value |-> <<>>]]

\* serde_json::from_value::<AssemblyResponse>: the transaction is required
AssemblyResponseFromJson(j) ==
    IF HasField(j, Name("transaction"))
    THEN LET tx == TransactionDataFromJson(Field(j, Name("transaction")))
         IN  [ok |-> tx.ok, transaction |-> tx.val]
    ELSE [ok |-> FALSE, transaction |-> [data |-> <<>>, value |-> <<>>]]

RECURSIVE ParseDecimal(_)
ParseDecimal(s) ==
    IF s = <<>> THEN 0
    ELSE 10 * ParseDecimal(SubSeq(s, 1, Len(s) - 1))
           + ((CHOOSE i \in 1..10 : DecDigits[i] = s[Len(s)]) - 1)

\* parse_value(&value): the number a decimal string denotes
parse_value(value) == ParseDecimal(value)

\* OdosError, by kind
quote_request_error(message) == [kind |-> "QuoteRequest", message |-> message]
transaction_assembly_error(message) ==
    [kind |-> "TransactionAssembly", message |-> message]
TransportError(cause) == [kind |-> "Transport", message |-> <<Word(Name(cause))>>]
\* the conversions `?` applies to a foreign error
From_reqwest_Error(e) ==
    IF e = "decode" THEN [kind |-> "Decoding", message |-> <<Word(Name(e))>>]
    ELSE [kind |-> "Transport", message |-> <<Word(Name(e))>>]
From_serde_json_Error(e) == [kind |-> "Decoding", message |-> <<Word(Name(e))>>]
From_FromHexError(e) == [kind |-> "Hex", message |-> <<Word(Name(e))>>]

Ok(x) == [tag |-> "Ok", val |-> x, error |-> [kind |-> "", message |-> <<>>]]
Err(e) == [tag |-> "Err", val |-> <<>>, error |-> e]
NoResult == [tag |-> "None", val |-> <<>>, error |-> [kind |-> "", message |-> <<>>]]

(***************************************************************************)
(* http::StatusCode and the two error messages.                            *)
(***************************************************************************)
is_success(status) == 200 <= status /\ status < 300

CanonicalReason(status) ==
    CASE status = 200 -> "OK"
      [] status = 300 -> "Multiple Choices"
      [] status = 404 -> "Not Found"
      [] status = 500 -> "Internal Server Error"
      [] OTHER -> "<unknown status code>"

\* Display of a StatusCode: the code, then its canonical reason
DisplayStatus(status) == <<Word(Digits(status)), Word(Name(CanonicalReason(status)))>>

\* a message that leaves the status out
QuoteErrorMessageWithoutStatus(status, error_text) ==
    <<Word(Name("API error: "))>> \o error_text

\* format!("API error (status: {status}): {error_text}")
QuoteErrorMessage(status, error_text) ==
    <<Word(Name("API error (status: "))>> \o DisplayStatus(status)
        \o <<Word(Name("): "))>> \o error_text

\* format!("API error (status: {status}): {error}")
AssemblyErrorMessage(status, error) ==
    <<Word(Name("API error (status: "))>> \o DisplayStatus(status)
        \o <<Word(Name("): "))>> \o error

UnknownError == <<Word(Name("Unknown error"))>>
FailedToGetErrorMessage == <<Word(Name("Failed to get error message"))>>

(***************************************************************************)
(* The inputs: what callers pass and what the mocked endpoints answer.     *)
(***************************************************************************)
QUOTE_URL == "https://api.odos.xyz/sor/quote/v2"
ASSEMBLE_URL == "ASSEMBLE_URL"

QuoteRequests == {[input_token |-> a, amount |-> <<"1">>] : a \in Addresses}

SwapContexts ==
    [signer_address : Addresses, output_recipient : Addresses,
     router_address : Addresses, path_id : PathIds]

AssembleRequests ==
    [user_addr : {AddressToString(a) : a \in Addresses}, path_id : PathIds,
     simulate : BOOLEAN, receiver : {None} \cup {Some(a) : a \in Addresses}]

\* with and without the 0x prefix; x is not a hex digit
DataStrings ==
    {prefix \o digits : prefix \in {<<>>, <<"0", "x">>},
                        digits \in SeqsUpTo({"0", "x", "f"}, MaxDigits)}
ValueStrings == SeqsUpTo({"0", "7"}, MaxValueLen) \ {<<>>}

TxObject(data, value) ==
    JObject(<<Member(Name("to"), JString(AddressToString(<<0>>))),
              Member(Name("data"), JString(data)),
              Member(Name("value"), JString(value))>>)

WellFormedTx == {TxObject(d, v) : d \in DataStrings, v \in ValueStrings}

\* transaction objects that lack a required field or give it the wrong type
IllFormedTx ==
    {JObject(<<>>),
     JObject(<<Member(Name("data"), JString(<<"f", "f">>))>>),
     JObject(<<Member(Name("value"), JString(<<"7">>))>>),
     JObject(<<Member(Name("data"), JObject(<<>>)),
               Member(Name("value"), JString(<<"7">>))>>),
     JString(Name("tx"))}

AssembleDocs ==
    {JObject(<<Member(Name("transaction"), tx)>>) : tx \in WellFormedTx \cup IllFormedTx}
    \cup {JObject(<<Member(Name("blockNumber"), JString(<<"1">>)),
                    Member(Name("transaction"), TxObject(<<"0", "x", "f", "f">>, <<"7">>)),
                    Member(Name("simulation"), JObject(<<>>))>>),
          JObject(<<Member(Name("blockNumber"), JString(<<"1">>))>>),
          JObject(<<>>),
          JString(Name("ok"))}

QuoteDocs ==
    {JObject(<<Member(Name("pathId"), JString(p))>>) : p \in PathIds}
    \cup {JObject(<<Member(Name("blockNumber"), JString(<<"1">>)),
                    Member(Name("pathId"), JString(p))>>) : p \in PathIds}
    \cup {JObject(<<Member(Name("pathId"), JObject(<<>>))>>),
          JObject(<<Member(Name("blockNumber"), JString(<<"1">>))>>),
          JObject(<<>>),
          JString(Name("ok"))}

ErrorDocs ==
    {JObject(<<Member(Name("detail"), JString(Name("bad request")))>>),
     JObject(<<Member(Name("pathId"), JString(Name("path-1")))>>),
     JObject(<<Member(Name("transaction"), TxObject(<<"0", "x", "f", "f">>, <<"7">>))>>)}

\* texts that are not one JSON value
RawTexts ==
    {<<>>,
     <<Word(Name("Bad Gateway"))>>,
     <<LBrace>>,
     <<LBrace, StrTok(Name("transaction")), Colon>>,
     <<LBrace, StrTok(Name("pathId")), Colon, StrTok(Name("path-1")), RBrace, RBrace>>}

JsonBody(doc) == [json |-> TRUE, doc |-> doc, text |-> Serialize(doc)]
RawBody(text) == [json |-> FALSE, doc |-> JNull, text |-> text]

Statuses == {199, 200, 299, 300, 404, 500}

ErrorBodies == {JsonBody(d) : d \in ErrorDocs} \cup {RawBody(t) : t \in RawTexts}
QuoteBodies == {JsonBody(d) : d \in QuoteDocs} \cup {RawBody(t) : t \in RawTexts}
AssembleBodies == {JsonBody(d) : d \in AssembleDocs} \cup {RawBody(t) : t \in RawTexts}

\* every body under 200 OK, and every status with the error bodies
QuoteMocks == [status : {200}, body : QuoteBodies] \cup [status : Statuses, body : ErrorBodies]
AssembleMocks ==
    [status : {200}, body : AssembleBodies] \cup [status : Statuses, body : ErrorBodies]

TransportCauses == {"connect", "timeout"}

(***************************************************************************)
(* The state: one shared client and, per call site, one call.              *)
(***************************************************************************)
VARIABLES
    client,     \* OdosSorV2.client: the transport handle and its configuration
    op,         \* the operation the call site invoked
    pc,         \* where the call is: idle, an await or a step, done
    args,       \* the arguments it was invoked with
    sent,       \* the requests handed to execute_with_retry, in order
    attempts,   \* attempts the transport helper has made, while it runs
    response,   \* the call's `response` local, until something consumes it
    served,     \* what the mocked endpoint answered (history)
    local,      \* the call's other locals: value, data, input
    result,     \* what the call returned
    trace       \* the steps the call has taken and how each ended (history)

vars == <<client, op, pc, args, sent, attempts, response, served, local, result, trace>>

Callers == DOMAIN pc

NoResponse == [present |-> FALSE, status |-> 0, body |-> <<>>]
NotServed == [status |-> 0, body |-> RawBody(<<>>)]
Step(name, ok) == [step |-> name, ok |-> ok]

Set(f, c, v) == [f EXCEPT ![c] = v]
Last(s) == s[Len(s)]
Log(c, name, ok) == trace' = Set(trace, c, Append(trace[c], Step(name, ok)))
\* reading the body, and when it was read, decoding it
LogBody(c, body_read, name, ok) ==
    trace' = Set(trace, c, trace[c] \o <<Step("body", body_read)>>
                             \o (IF body_read THEN <<Step(name, ok)>> ELSE <<>>))
Finish(c, r) == result' = Set(result, c, r) /\ pc' = Set(pc, c, "done")

InitFor(callers) ==
    /\ client = [config |-> "ClientConfig::default()"]
    /\ op = [c \in callers |-> "none"]
    /\ pc = [c \in callers |-> "idle"]
    /\ args = [c \in callers |-> <<>>]
    /\ sent = [c \in callers |-> <<>>]
    /\ attempts = [c \in callers |-> 0]
    /\ response = [c \in callers |-> NoResponse]
    /\ served = [c \in callers |-> NotServed]
    /\ local = [c \in callers |-> <<>>]
    /\ result = [c \in callers |-> NoResult]
    /\ trace = [c \in callers |-> <<>>]

Init == InitFor({1})

(***************************************************************************)
(* Entering an operation: everything up to its first await.                *)
(***************************************************************************)
\* the request the closure of get_swap_quote builds
QuoteHttpRequest(quote_request) ==
    [url |-> QUOTE_URL, header |-> <<"accept", "application/json">>,
     json |-> quote_request]

\* the request the closure of get_assemble_response builds
AssembleHttpRequest(assemble_request) ==
    [url |-> ASSEMBLE_URL, header |-> <<"Content-Type", "application/json">>,
     json |-> assemble_request]

\* self.client.execute_with_retry(closure): the helper takes the call over
execute_with_retry(c, request) ==
    /\ sent' = Set(sent, c, Append(sent[c], request))
    /\ attempts' = Set(attempts, c, 1)
    /\ pc' = Set(pc, c, "transport")

get_assemble_response(c, assemble_request) ==
    execute_with_retry(c, AssembleHttpRequest(assemble_request))

\* a request that names no receiver
AssembleRequestWithoutReceiver(signer_address, output_recipient, path_id) ==
    [user_addr |-> AddressToString(signer_address), path_id |-> path_id,
     simulate |-> FALSE, receiver |-> None]

\* the AssembleRequest assemble_tx_data constructs
AssembleRequestOf(signer_address, output_recipient, path_id) ==
    [user_addr |-> AddressToString(signer_address), path_id |-> path_id,
     simulate |-> FALSE, receiver |-> Some(output_recipient)]

assemble_tx_data(c, signer_address, output_recipient, path_id) ==
    get_assemble_response(c, AssembleRequestOf(signer_address, output_recipient, path_id))

build_base_transaction(c, swap) ==
    assemble_tx_data(c, swap.signer_address, swap.output_recipient, swap.path_id)

Call_get_swap_quote(c, quote_request) ==
    /\ pc[c] = "idle"
    /\ op' = Set(op, c, "get_swap_quote")
    /\ args' = Set(args, c, quote_request)
    /\ execute_with_retry(c, QuoteHttpRequest(quote_request))
    /\ UNCHANGED <<client, response, served, local, result, trace>>

Call_get_assemble_response(c, assemble_request) ==
    /\ pc[c] = "idle"
    /\ op' = Set(op, c, "get_assemble_response")
    /\ args' = Set(args, c, assemble_request)
    /\ get_assemble_response(c, assemble_request)
    /\ UNCHANGED <<client, response, served, local, result, trace>>

Call_assemble_tx_data(c, signer_address, output_recipient, path_id) ==
    /\ pc[c] = "idle"
    /\ op' = Set(op, c, "assemble_tx_data")
    /\ args' = Set(args, c, [signer_address |-> signer_address,
                             output_recipient |-> output_recipient,
                             path_id |-> path_id])
    /\ assemble_tx_data(c, signer_address, output_recipient, path_id)
    /\ UNCHANGED <<client, response, served, local, result, trace>>

Call_build_base_transaction(c, swap) ==
    /\ pc[c] = "idle"
    /\ op' = Set(op, c, "build_base_transaction")
    /\ args' = Set(args, c, swap)
    /\ build_base_transaction(c, swap)
    /\ UNCHANGED <<client, response, served, local, result, trace>>

(***************************************************************************)
(* The transport helper, and the code that resumes when it returns.        *)
(***************************************************************************)
\* a low-level call that judges the status itself
get_assemble_response_checks_status(helper_result) ==
    IF helper_result.tag = "Ok" /\ ~is_success(helper_result.val.status)
    THEN Err(transaction_assembly_error(
                 AssemblyErrorMessage(helper_result.val.status, helper_result.val.body)))
    ELSE helper_result

\* get_assemble_response returns what the helper returned
get_assemble_response_returns(helper_result) == helper_result

\* a caller that hands a failed request to the helper once more
AfterHelperRetrying(c, helper_result) ==
    LET r == IF op[c] = "get_swap_quote" THEN helper_result
             ELSE get_assemble_response_returns(helper_result)
    IN  /\ Log(c, "transport", r.tag = "Ok")
        /\ IF r.tag = "Err" /\ Len(sent[c]) < 2
           THEN /\ sent' = Set(sent, c, Append(sent[c], Last(sent[c])))
                /\ attempts' = Set(attempts, c, 1)
                /\ UNCHANGED <<pc, result, response>>
           ELSE /\ UNCHANGED sent
                /\ attempts' = Set(attempts, c, 0)
                /\ IF op[c] = "get_assemble_response" \/ r.tag = "Err"
                   THEN Finish(c, r) /\ UNCHANGED response
                   ELSE /\ response' = Set(response, c, r.val)
                        /\ pc' = Set(pc, c, "status")
                        /\ UNCHANGED result

\* a client that keeps the latest response in one slot for all its calls
AfterHelperShared(c, helper_result) ==
    LET r == IF op[c] = "get_swap_quote" THEN helper_result
             ELSE get_assemble_response_returns(helper_result)
    IN  /\ Log(c, "transport", r.tag = "Ok")
        /\ UNCHANGED sent
        /\ attempts' = Set(attempts, c, 0)
        /\ IF op[c] = "get_assemble_response" \/ r.tag = "Err"
           THEN Finish(c, r) /\ UNCHANGED response
           ELSE /\ response' = [d \in DOMAIN response |->
                                   IF d = c \/ response[d].present
                                   THEN r.val ELSE response[d]]
                /\ pc' = Set(pc, c, "status")
                /\ UNCHANGED result

\* the code after `execute_with_retry(..).await`
AfterHelper(c, helper_result) ==
    LET r == IF op[c] = "get_swap_quote" THEN helper_result
             ELSE get_assemble_response_returns(helper_result)
    IN  /\ Log(c, "transport", r.tag = "Ok")
        /\ UNCHANGED sent
        /\ attempts' = Set(attempts, c, 0)
        /\ IF op[c] = "get_assemble_response"
           THEN Finish(c, r) /\ UNCHANGED response
           ELSE IF r.tag = "Err"
           THEN Finish(c, Err(r.error)) /\ UNCHANGED response
           ELSE /\ response' = Set(response, c, r.val)
                /\ pc' = Set(pc, c, "status")
                /\ UNCHANGED result

MocksFor(c) == IF op[c] = "get_swap_quote" THEN QuoteMocks ELSE AssembleMocks

\* the helper tries again
TransportRetry(c) ==
    /\ pc[c] = "transport"
    /\ attempts[c] < MaxAttempts
    /\ attempts' = Set(attempts, c, attempts[c] + 1)
    /\ UNCHANGED <<client, op, pc, args, sent, response, served, local, result, trace>>

\* the helper hands back the endpoint's answer, whatever its status
TransportOk(c, mock) ==
    /\ pc[c] = "transport"
    /\ mock \in MocksFor(c)
    /\ served' = Set(served, c, mock)
    /\ AfterHelper(c, Ok([present |-> TRUE, status |-> mock.status,
                          body |-> mock.body.text]))
    /\ UNCHANGED <<client, op, args, local>>

\* the helper gives up
TransportErr(c, cause) ==
    /\ pc[c] = "transport"
    /\ AfterHelper(c, Err(TransportError(cause)))
    /\ UNCHANGED <<client, op, args, served, local>>

(***************************************************************************)
(* get_swap_quote after the response is in.                                *)
(***************************************************************************)
IsQuote(c) == op[c] = "get_swap_quote"
IsAssemble(c) == op[c] \in {"assemble_tx_data", "build_base_transaction"}

\* if response.status().is_success() { .. } else { .. }
QuoteStatusCheck(c) ==
    /\ pc[c] = "status" /\ IsQuote(c)
    /\ Log(c, "status", is_success(response[c].status))
    /\ pc' = Set(pc, c, IF is_success(response[c].status) THEN "json" ELSE "text")
    /\ UNCHANGED <<client, op, args, sent, attempts, response, served, local, result>>

\* a decode whose failure is reported as an API error
QuoteDecodedOrApiError(body_read, body) ==
    LET parsed == ParseJson(body)
        quote == QuoteFromJson(parsed.val)
    IN  IF ~body_read THEN Err(From_reqwest_Error("body"))
        ELSE IF ~parsed.ok \/ ~quote.ok
        THEN Err(quote_request_error(QuoteErrorMessage(200, body)))
        ELSE Ok(quote.val)

\* response.json().await?: the body as a SingleQuoteResponse
QuoteDecoded(body_read, body) ==
    LET parsed == ParseJson(body)
        quote == QuoteFromJson(parsed.val)
    IN  IF ~body_read THEN Err(From_reqwest_Error("body"))
        ELSE IF ~parsed.ok \/ ~quote.ok THEN Err(From_reqwest_Error("decode"))
        ELSE Ok(quote.val)

QuoteJson(c, body_read) ==
    /\ pc[c] = "json" /\ IsQuote(c)
    /\ LogBody(c, body_read, "json", QuoteDecoded(body_read, response[c].body).tag = "Ok")
    /\ Finish(c, QuoteDecoded(body_read, response[c].body))
    /\ response' = Set(response, c, NoResponse)
    /\ UNCHANGED <<client, op, args, sent, attempts, served, local>>

\* the error of the else branch: the status and the body text, or a placeholder
QuoteApiError(status, body_read, body) ==
    quote_request_error(
        QuoteErrorMessage(status, IF body_read THEN body ELSE UnknownError))

QuoteErrorText(c, body_read) ==
    /\ pc[c] = "text" /\ IsQuote(c)
    /\ Log(c, "error_text", body_read)
    /\ Finish(c, Err(QuoteApiError(response[c].status, body_read, response[c].body)))
    /\ response' = Set(response, c, NoResponse)
    /\ UNCHANGED <<client, op, args, sent, attempts, served, local>>

(***************************************************************************)
(* assemble_tx_data after the response is in.                              *)
(***************************************************************************)
\* a status check that lets every response through to the decoding
AssembleStatusCheckSkipped(c) ==
    /\ pc[c] = "status" /\ IsAssemble(c)
    /\ Log(c, "status", TRUE)
    /\ pc' = Set(pc, c, "json")
    /\ UNCHANGED <<client, op, args, sent, attempts, response, served, local, result>>

\* if !response.status().is_success() { .. return Err(..) }
AssembleStatusCheck(c) ==
    /\ pc[c] = "status" /\ IsAssemble(c)
    /\ Log(c, "status", is_success(response[c].status))
    /\ pc' = Set(pc, c, IF is_success(response[c].status) THEN "json" ELSE "text")
    /\ UNCHANGED <<client, op, args, sent, attempts, response, served, local, result>>

AssembleApiError(status, body_read, body) ==
    transaction_assembly_error(
        AssemblyErrorMessage(status, IF body_read THEN body ELSE FailedToGetErrorMessage))

AssembleErrorText(c, body_read) ==
    /\ pc[c] = "text" /\ IsAssemble(c)
    /\ Log(c, "error_text", body_read)
    /\ Finish(c, Err(AssembleApiError(response[c].status, body_read, response[c].body)))
    /\ response' = Set(response, c, NoResponse)
    /\ UNCHANGED <<client, op, args, sent, attempts, served, local>>

\* let value: Value = response.json().await?
ValueDecoded(body_read, body) ==
    LET parsed == ParseJson(body)
    IN  IF ~body_read THEN Err(From_reqwest_Error("body"))
        ELSE IF ~parsed.ok THEN Err(From_reqwest_Error("decode"))
        ELSE Ok(parsed.val)

AssembleJson(c, body_read) ==
    LET value == ValueDecoded(body_read, response[c].body)
    IN  /\ pc[c] = "json" /\ IsAssemble(c)
        /\ LogBody(c, body_read, "json", value.tag = "Ok")
        /\ response' = Set(response, c, NoResponse)
        /\ IF value.tag = "Err"
           THEN Finish(c, value) /\ UNCHANGED local
           ELSE /\ local' = Set(local, c, [value |-> value.val])
                /\ pc' = Set(pc, c, "from_value")
                /\ UNCHANGED result
        /\ UNCHANGED <<client, op, args, sent, attempts, served>>

\* a decode that falls back to empty transaction data
TransactionDecodedOrDefault(value) == Ok(AssemblyResponseFromJson(value).transaction)

\* let AssemblyResponse { transaction, .. } = serde_json::from_value(value)?
TransactionDecoded(value) ==
    LET r == AssemblyResponseFromJson(value)
    IN  IF r.ok THEN Ok(r.transaction)
        ELSE Err(From_serde_json_Error("data did not match AssemblyResponse"))

\* Ok(transaction), and in build_base_transaction the `?` and the destructuring
AssembleFromValue(c) ==
    LET transaction == TransactionDecoded(local[c].value)
    IN  /\ pc[c] = "from_value" /\ IsAssemble(c)
        /\ Log(c, "from_value", transaction.tag = "Ok")
        /\ IF op[c] = "assemble_tx_data" \/ transaction.tag = "Err"
           THEN Finish(c, transaction) /\ local' = Set(local, c, <<>>)
           ELSE /\ local' = Set(local, c, [data |-> transaction.val.data,
                                           value |-> transaction.val.value])
                /\ pc' = Set(pc, c, "hex")
                /\ UNCHANGED result
        /\ UNCHANGED <<client, op, args, sent, attempts, response, served>>

(***************************************************************************)
(* build_base_transaction after assemble_tx_data returned.                 *)
(***************************************************************************)
NoneNumber == [some |-> FALSE, v |-> 0]

\* TransactionRequest::default()
DefaultTransactionRequest ==
    [from |-> None, to |-> None, gas_price |-> NoneNumber, gas |-> NoneNumber,
     value |-> NoneNumber, input |-> None, nonce |-> NoneNumber]

\* hex::decode(&data)?
InputDecoded(data) ==
    LET r == HexDecode(data)
    IN  IF r.ok THEN Ok(r.bytes) ELSE Err(From_FromHexError(r.error))

\* a decode whose failure is replaced by empty input
BuildHexDecodeOrEmpty(c) ==
    LET input == InputDecoded(local[c].data)
    IN  /\ pc[c] = "hex" /\ op[c] = "build_base_transaction"
        /\ Log(c, "hex", input.tag = "Ok")
        /\ local' = Set(local, c, [input |-> input.val, value |-> local[c].value])
        /\ pc' = Set(pc, c, "build")
        /\ UNCHANGED result
        /\ UNCHANGED <<client, op, args, sent, attempts, response, served>>

BuildHexDecode(c) ==
    LET input == InputDecoded(local[c].data)
    IN  /\ pc[c] = "hex" /\ op[c] = "build_base_transaction"
        /\ Log(c, "hex", input.tag = "Ok")
        /\ IF input.tag = "Err"
           THEN Finish(c, input) /\ local' = Set(local, c, <<>>)
           ELSE /\ local' = Set(local, c, [input |-> input.val, value |-> local[c].value])
                /\ pc' = Set(pc, c, "build")
                /\ UNCHANGED result
        /\ UNCHANGED <<client, op, args, sent, attempts, response, served>>

\* a transaction sent to the signer and from the router
BaseTransactionSwapped(input, value, swap) ==
    [DefaultTransactionRequest EXCEPT
        !.input = Some(input),
        !.value = [some |-> TRUE, v |-> parse_value(value)],
        !.to = Some(swap.signer_address),
        !.from = Some(swap.router_address)]

\* .with_input(..).with_value(parse_value(&value)).with_to(..).with_from(..)
BaseTransaction(input, value, swap) ==
    [DefaultTransactionRequest EXCEPT
        !.input = Some(input),
        !.value = [some |-> TRUE, v |-> parse_value(value)],
        !.to = Some(swap.router_address),
        !.from = Some(swap.signer_address)]

BuildTransaction(c) ==
    /\ pc[c] = "build" /\ op[c] = "build_base_transaction"
    /\ Log(c, "build", TRUE)
    /\ Finish(c, Ok(BaseTransaction(local[c].input, local[c].value, args[c])))
    /\ local' = Set(local, c, <<>>)
    /\ UNCHANGED <<client, op, args, sent, attempts, response, served>>

(***************************************************************************)
(* The specifications.                                                     *)
(***************************************************************************)
Next ==
    \/ \E c \in {1}, q \in QuoteRequests : Call_get_swap_quote(c, q)
    \/ \E c \in {1}, a \in AssembleRequests : Call_get_assemble_response(c, a)
    \/ \E c \in {1}, s \in Addresses, r \in Addresses, p \in PathIds :
           Call_assemble_tx_data(c, s, r, p)
    \/ \E c \in {1}, swap \in SwapContexts : Call_build_base_transaction(c, swap)
    \/ \E c \in {1} : TransportRetry(c)
    \/ \E c \in {1}, mock \in QuoteMocks \cup AssembleMocks : TransportOk(c, mock)
    \/ \E c \in {1}, cause \in TransportCauses : TransportErr(c, cause)
    \/ \E c \in {1} : QuoteStatusCheck(c)
    \/ \E c \in {1}, body_read \in BOOLEAN : QuoteJson(c, body_read)
    \/ \E c \in {1}, body_read \in BOOLEAN : QuoteErrorText(c, body_read)
    \/ \E c \in {1} : AssembleStatusCheck(c)
    \/ \E c \in {1}, body_read \in BOOLEAN : AssembleErrorText(c, body_read)
    \/ \E c \in {1}, body_read \in BOOLEAN : AssembleJson(c, body_read)
    \/ \E c \in {1} : AssembleFromValue(c)
    \/ \E c \in {1} : BuildHexDecode(c)
    \/ \E c \in {1} : BuildTransaction(c)

Spec == Init /\ [][Next]_vars

(***************************************************************************)
(* Several call sites share the client and call get_swap_quote.            *)
(***************************************************************************)
ConcurrentCallers == 1..NumCallers

\* a quote, a body that is no JSON, and an error status
ConcurrentMocks ==
    {[status |-> 200,
      body |-> JsonBody(JObject(<<Member(Name("pathId"), JString(Name("path-1")))>>))],
     [status |-> 200, body |-> RawBody(<<Word(Name("Bad Gateway"))>>)],
     [status |-> 404, body |-> RawBody(<<Word(Name("Bad Gateway"))>>)]}

ConcurrentInit == InitFor(ConcurrentCallers)

ConcurrentNext ==
    \/ \E c \in ConcurrentCallers, q \in QuoteRequests : Call_get_swap_quote(c, q)
    \/ \E c \in ConcurrentCallers : TransportRetry(c)
    \/ \E c \in ConcurrentCallers, mock \in ConcurrentMocks : TransportOk(c, mock)
    \/ \E c \in ConcurrentCallers : TransportErr(c, "timeout")
    \/ \E c \in ConcurrentCallers : QuoteStatusCheck(c)
    \/ \E c \in ConcurrentCallers : QuoteJson(c, TRUE)
    \/ \E c \in ConcurrentCallers : QuoteErrorText(c, TRUE)

ConcurrentSpec ==
    /\ ConcurrentInit
    /\ [][ConcurrentNext]_vars
    /\ \A c \in ConcurrentCallers :
          WF_vars(\/ \E q \in QuoteRequests : Call_get_swap_quote(c, q)
                  \/ \E mock \in ConcurrentMocks : TransportOk(c, mock)
                  \/ QuoteStatusCheck(c)
                  \/ QuoteJson(c, TRUE)
                  \/ QuoteErrorText(c, TRUE))

(***************************************************************************)
(* The properties.                                                         *)
(***************************************************************************)
Is2xx(status) == status \div 100 = 2
Done(c) == pc[c] = "done"
\* the transport helper handed the call a response
Answered(c) == served[c].status # 0
Steps(c) == {trace[c][i].step : i \in 1..Len(trace[c])}
Took(c, name, ok) == \E i \in 1..Len(trace[c]) : trace[c][i] = Step(name, ok)
Failed(c, kind) == result[c].tag = "Err" /\ result[c].error.kind = kind

\* C1: a non-2xx answer of the quote endpoint makes get_swap_quote fail with
\* a quote-request error whose message holds the status code and the body
\* text (the placeholder when the body could not be read); the call never
\* decodes the body, never returns a quote and never reports a transport or
\* decoding error.
C1_QuoteNon2xxIsQuoteRequestError ==
    \A c \in Callers :
        (IsQuote(c) /\ Answered(c) /\ ~Is2xx(served[c].status)) =>
            /\ result[c].tag # "Ok"
            /\ Steps(c) \subseteq {"transport", "status", "error_text"}
            /\ Done(c) =>
                /\ Failed(c, "QuoteRequest")
                /\ Contains(result[c].error.message,
                            <<Word(Digits(served[c].status))>>)
                /\ Took(c, "error_text", TRUE) =>
                       Contains(result[c].error.message, served[c].body.text)
                /\ Took(c, "error_text", FALSE) =>
                       Contains(result[c].error.message, UnknownError)

C1_Witness ==
    \E c \in Callers :
        /\ IsQuote(c) /\ Done(c)
        /\ served[c].status = 404
        /\ served[c].body.text = <<Word(Name("Bad Gateway"))>>
        /\ Took(c, "error_text", TRUE)
        /\ Failed(c, "QuoteRequest")

\* C2: a non-2xx answer of the assemble endpoint makes assemble_tx_data, and
\* with it build_base_transaction, fail with a transaction-assembly error
\* whose message holds the status code and the body text; the status is
\* checked before any decoding, so the body is never decoded.
C2_AssembleNon2xxIsAssemblyError ==
    \A c \in Callers :
        (IsAssemble(c) /\ Answered(c) /\ ~Is2xx(served[c].status)) =>
            /\ result[c].tag # "Ok"
            /\ Steps(c) \subseteq {"transport", "status", "error_text"}
            /\ Done(c) =>
                /\ Failed(c, "TransactionAssembly")
                /\ Contains(result[c].error.message,
                            <<Word(Digits(served[c].status))>>)
                /\ Took(c, "error_text", TRUE) =>
                       Contains(result[c].error.message, served[c].body.text)
                /\ Took(c, "error_text", FALSE) =>
                       Contains(result[c].error.message, FailedToGetErrorMessage)

C2_Witness ==
    \E c \in Callers :
        /\ op[c] = "build_base_transaction" /\ Done(c)
        /\ served[c].status = 500
        /\ served[c].body.json
        /\ AssemblyResponseFromJson(served[c].body.doc).ok
        /\ Took(c, "error_text", TRUE)
        /\ Failed(c, "TransactionAssembly")

\* the mocked assembly document, read without the client's decoders
MockDoc(c) == served[c].body.doc
MockTransaction(c) == Field(MockDoc(c), Name("transaction"))
WellFormedAssembly(c) ==
    /\ served[c].body.json
    /\ HasField(MockDoc(c), Name("transaction"))
    /\ HasStringField(MockTransaction(c), Name("data"))
    /\ HasStringField(MockTransaction(c), Name("value"))
MockData(c) == Field(MockTransaction(c), Name("data")).s
MockValue(c) == Field(MockTransaction(c), Name("value")).s

HexDigitSet ==
    {"0", "1", "2", "3", "4", "5", "6", "7", "8", "9", "a", "b", "c", "d", "e", "f",
     "A", "B", "C", "D", "E", "F"}
WithoutPrefix(s) ==
    IF Len(s) > 1 /\ SubSeq(s, 1, 2) = <<"0", "x">> THEN SubSeq(s, 3, Len(s)) ELSE s
WellFormedHex(s) ==
    /\ Len(WithoutPrefix(s)) % 2 = 0
    /\ \A i \in 1..Len(WithoutPrefix(s)) : WithoutPrefix(s)[i] \in HexDigitSet

RECURSIVE NumericFrom(_, _)
NumericFrom(s, acc) ==
    IF s = <<>> THEN acc
    ELSE NumericFrom(Tail(s), 10 * acc + (CHOOSE d \in 0..9 : DecDigits[d + 1] = Head(s)))
NumericValue(s) == NumericFrom(s, 0)

\* C3: on a 2xx answer with a well-formed assembly response,
\* build_base_transaction returns a request whose input is the hex decoding
\* of `data`, whose value is the number `value` denotes, whose destination is
\* the swap context's router and whose sender is its signer, with gas price,
\* gas limit and nonce unset.
C3_BaseTransactionFields ==
    \A c \in Callers :
        (/\ op[c] = "build_base_transaction" /\ Done(c)
         /\ Answered(c) /\ Is2xx(served[c].status) /\ Took(c, "body", TRUE)
         /\ WellFormedAssembly(c) /\ WellFormedHex(MockData(c))) =>
            /\ result[c].tag = "Ok"
            /\ result[c].val.input.some
            /\ HexEncode(result[c].val.input.v) = WithoutPrefix(MockData(c))
            /\ result[c].val.value = [some |-> TRUE, v |-> NumericValue(MockValue(c))]
            /\ result[c].val.to = Some(args[c].router_address)
            /\ result[c].val.from = Some(args[c].signer_address)
            /\ ~result[c].val.gas_price.some
            /\ ~result[c].val.gas.some
            /\ ~result[c].val.nonce.some

C3_Witness ==
    \E c \in Callers :
        /\ op[c] = "build_base_transaction" /\ Done(c) /\ result[c].tag = "Ok"
        /\ MockData(c) = <<"0", "x", "f", "0">> /\ MockValue(c) = <<"7", "0">>
        /\ result[c].val.input = Some(<<240>>)
        /\ result[c].val.value.v = 70
        /\ args[c].router_address = <<255>> /\ args[c].signer_address = <<0>>
        /\ Field(MockTransaction(c), Name("to")).s = AddressToString(<<0>>)

\* C4: on a 2xx answer whose `data` is odd-length or not hex,
\* build_base_transaction fails with a hex-decode error at the decode: no
\* request is returned, nothing is built and no further request is sent.
C4_MalformedDataIsHexError ==
    \A c \in Callers :
        (/\ op[c] = "build_base_transaction"
         /\ Answered(c) /\ Is2xx(served[c].status) /\ Took(c, "body", TRUE)
         /\ WellFormedAssembly(c) /\ ~WellFormedHex(MockData(c))) =>
            /\ result[c].tag # "Ok"
            /\ "build" \notin Steps(c)
            /\ Len(sent[c]) = 1
            /\ Done(c) => Failed(c, "Hex") /\ Last(trace[c]) = Step("hex", FALSE)

C4_Witness ==
    \E c \in Callers, data \in {<<"0", "x", "f">>, <<"x", "f">>} :
        /\ op[c] = "build_base_transaction" /\ Done(c)
        /\ WellFormedAssembly(c) /\ MockData(c) = data
        /\ Failed(c, "Hex")

\* C5: get_assemble_response returns the raw response as a success for every
\* status the transport helper hands back, fails only when the helper
\* failed, and neither inspects the status nor reads the body.
C5_RawResponsePassesThrough ==
    \A c \in Callers :
        op[c] = "get_assemble_response" =>
            /\ Steps(c) \subseteq {"transport"}
            /\ Done(c) =>
                IF Answered(c)
                THEN result[c] = Ok([present |-> TRUE, status |-> served[c].status,
                                     body |-> served[c].body.text])
                ELSE \E cause \in TransportCauses : result[c] = Err(TransportError(cause))

C5_Witness ==
    \E c \in Callers :
        /\ op[c] = "get_assemble_response" /\ Done(c)
        /\ served[c].status = 500 /\ result[c].tag = "Ok"
        /\ result[c].val.status = 500

\* C6: on a 2xx answer whose body is not JSON, or is JSON without the
\* required transaction fields, assemble_tx_data fails with a decoding error:
\* it returns no transaction data, and the error is neither a
\* transaction-assembly nor a transport error.
C6_BadBodyIsDecodingError ==
    \A c \in Callers :
        (/\ IsAssemble(c)
         /\ Answered(c) /\ Is2xx(served[c].status) /\ Took(c, "body", TRUE)
         /\ ~WellFormedAssembly(c)) =>
            /\ result[c].tag # "Ok"
            /\ Steps(c) \cap {"hex", "build"} = {}
            /\ Done(c) => Failed(c, "Decoding")

C6_Witness ==
    \E c \in Callers :
        /\ op[c] = "assemble_tx_data" /\ Done(c)
        /\ served[c].status = 200 /\ served[c].body.json
        /\ HasField(MockDoc(c), Name("transaction"))
        /\ ~HasField(MockTransaction(c), Name("value"))
        /\ Took(c, "from_value", FALSE)
        /\ Failed(c, "Decoding")

\* C7: on a 2xx answer get_swap_quote returns the quote the body holds when
\* the body is a well-formed quote response, and fails with a decoding error
\* when it is not.
C7_QuoteDecodedOrDecodingError ==
    \A c \in Callers :
        (/\ IsQuote(c) /\ Done(c)
         /\ Answered(c) /\ Is2xx(served[c].status) /\ Took(c, "body", TRUE)) =>
            IF served[c].body.json /\ HasStringField(MockDoc(c), Name("pathId"))
            THEN result[c] = Ok([path_id |-> Field(MockDoc(c), Name("pathId")).s])
            ELSE Failed(c, "Decoding")

C7_Witness ==
    \E c \in Callers :
        /\ IsQuote(c) /\ Done(c) /\ served[c].status = 200
        /\ served[c].body.json
        /\ Len(MockDoc(c).o) = 2
        /\ result[c] = Ok([path_id |-> Name("path-2")])

\* C8: the request assemble_tx_data and build_base_transaction hand to the
\* transport helper has simulate = false, the given output recipient as its
\* receiver, the signer address as userAddr and the given path identifier.
C8_AssembleRequestShape ==
    \A c \in Callers :
        (IsAssemble(c) /\ pc[c] # "idle") =>
            /\ Len(sent[c]) >= 1
            /\ \A i \in 1..Len(sent[c]) :
                /\ sent[c][i].url = ASSEMBLE_URL
                /\ sent[c][i].json.simulate = FALSE
                /\ sent[c][i].json.receiver.some
                /\ sent[c][i].json.receiver.v = args[c].output_recipient
                /\ HexDecode(sent[c][i].json.user_addr).bytes = args[c].signer_address
                /\ sent[c][i].json.path_id = args[c].path_id

C8_Witness ==
    \E c \in Callers :
        /\ op[c] = "build_base_transaction" /\ Len(sent[c]) = 1
        /\ args[c].signer_address = <<0>> /\ args[c].output_recipient = <<255>>
        /\ sent[c][1].json.receiver = Some(<<255>>)
        /\ sent[c][1].json.user_addr = <<"0", "x", "0", "0">>

CallState(c) ==
    <<op[c], pc[c], args[c], sent[c], attempts[c], response[c], served[c],
      local[c], result[c], trace[c]>>

\* a failed step ends the call; only the best-effort read of the error body
\* follows a failed status check
FailureIsLast(c) ==
    /\ \A i \in 1..(Len(trace[c]) - 1) :
          ~trace[c][i].ok =>
              /\ trace[c][i].step = "status"
              /\ i + 1 = Len(trace[c])
              /\ trace[c][i + 1].step = "error_text"
    /\ (trace[c] # <<>> /\ ~Last(trace[c]).ok /\ Last(trace[c]).step # "status") =>
           (Done(c) /\ result[c].tag = "Err")
    /\ result[c].tag = "Err" => Done(c)

HelperInvokedOnce(c) ==
    /\ Len(sent[c]) <= 1
    /\ pc[c] # "idle" => Len(sent[c]) = 1

\* C9: every call hands exactly one request to the transport helper, and a
\* failed step ends the call: no later step is taken, no request is sent
\* again, and the call's state never changes after it returned an error.
C9_NoRetryAndFailuresTerminal ==
    /\ [](\A c \in Callers : HelperInvokedOnce(c) /\ FailureIsLast(c))
    /\ [][\A c \in Callers :
             result[c].tag = "Err" => CallState(c)' = CallState(c)]_vars

C9_Witness ==
    \E c \in Callers :
        /\ op[c] = "build_base_transaction" /\ Done(c)
        /\ Failed(c, "Hex")
        /\ Len(sent[c]) = 1
        /\ Len(trace[c]) = 6

\* what the call's own request and the answer to it determine
OwnOutcome(c) ==
    /\ sent[c] = <<QuoteHttpRequest(args[c])>>
    /\ IF ~Answered(c) THEN Failed(c, "Transport")
       ELSE IF ~Is2xx(served[c].status)
       THEN /\ Failed(c, "QuoteRequest")
            /\ Contains(result[c].error.message, <<Word(Digits(served[c].status))>>)
            /\ Contains(result[c].error.message, served[c].body.text)
       ELSE IF served[c].body.json /\ HasStringField(MockDoc(c), Name("pathId"))
       THEN result[c] = Ok([path_id |-> Field(MockDoc(c), Name("pathId")).s])
       ELSE Failed(c, "Decoding")

\* C10: concurrent calls of get_swap_quote on one shared client all
\* complete, each with the result its own request and its own response
\* determine; no step of one call changes the state of another, and none
\* writes the client.
C10_ConcurrentQuotesIndependent ==
    /\ [](\A c \in Callers : Done(c) => OwnOutcome(c))
    /\ [][/\ client' = client
          /\ \A c \in Callers, d \in Callers :
                c # d => (CallState(c)' = CallState(c) \/ CallState(d)' = CallState(d))]_vars
    /\ <>(\A c \in Callers : Done(c))

C10_Witness ==
    \E c \in Callers, d \in Callers :
        /\ Done(c) /\ Done(d)
        /\ args[c] # args[d]
        /\ result[c] = Ok([path_id |-> Name("path-1")])
        /\ served[d].status = 404
        /\ Failed(d, "QuoteRequest")

=============================================================================
